---- MODULE Spec2Model ----
(***************************************************************************)
(* Model of the RealSense camera session of code/camera/Camera.py:         *)
(* RealSenseCamera.start_stream, stop_stream, setup_matrices and           *)
(* get_live_frame, together with the two collaborators the class talks to: *)
(* the vendor pipeline (a blocking source of frame sets) and the file      *)
(* system holding the two persisted calibration files.                     *)
(*                                                                         *)
(* The program is single-threaded.  A call runs to completion except at    *)
(* its two blocking points, input() in live mode and                       *)
(* pipeline.wait_for_frames(); only the driver acts while the program is   *)
(* blocked there.                                                          *)
(*                                                                         *)
(* The module also models the annotation loop of                           *)
(* code/dataset_creation/main.py: mouse_callback, convert_to_yolo and the  *)
(* keys of main's inner loop, over the module globals they share.          *)
(***************************************************************************)
EXTENDS Integers, Sequences, FiniteSets, TLC

VARIABLES
    rs_intrinsics,  \* self.rs_intrinsics: None or the driver-reported intrinsics
    K_matrix,       \* self.K_matrix
    D_matrix,       \* self.D_matrix
    R_matrix,       \* self.R_matrix
    T_vector,       \* self.T_vector
    running,        \* the pipeline has been started and not stopped
    produced,       \* number of frame sets the camera has captured so far
    queue,          \* the pipeline's frame queue: the capture number it holds, 0 when empty
    fs,             \* the calibration directory: path -> content (Missing when absent)
    pc,             \* where the program is: "idle", "confirm" or "flush"
    call,           \* the call in progress (operation, arguments, bookkeeping)
    i,              \* get_live_frame: iterations of the flush loop done
    frames,         \* get_live_frame: the local `frames`, as a capture number
    outcome,        \* what the last completed call returned or raised
    delivered,      \* a frame has been returned since the last start_stream
    lastSeq,        \* capture number of the newest frame returned so far
    nCalls,         \* number of calls the client has made
    drawing,        \* main.py global drawing
    ix, iy,         \* main.py globals ix, iy: where the button went down
    cx, cy,         \* main.py globals cx, cy: where the mouse is dragging
    current_boxes,  \* main.py global current_boxes
    window,         \* main.py: "stream", or "annotate" while the Annotate window is open
    labels          \* the label lines of the last txt file written

vars == <<rs_intrinsics, K_matrix, D_matrix, R_matrix, T_vector, running, produced,
          queue, fs, pc, call, i, frames, outcome, delivered, lastSeq, nCalls,
          drawing, ix, iy, cx, cy, current_boxes, window, labels>>

camera == <<rs_intrinsics, K_matrix, D_matrix, R_matrix, T_vector, running, produced,
            queue, fs, pc, call, i, frames, outcome, delivered, lastSeq, nCalls>>
annot  == <<drawing, ix, iy, cx, cy, current_boxes, window, labels>>

session == <<rs_intrinsics, K_matrix, D_matrix, R_matrix, T_vector>>
driver  == <<running, produced, queue>>
locals  == <<i, frames>>

\* Values are records, so that None compares with every one of them.
None    == [none |-> TRUE]       \* Python's None, as a value
Missing == [missing |-> TRUE]    \* the content of a file that does not exist
NoArg   == "<None>"              \* Python's None, as a path argument

(***************************************************************************)
(* Bounds of the exploration.                                              *)
(***************************************************************************)
MaxFrames == 21     \* frame sets the camera captures in one run
MaxCalls  == 3      \* calls the client makes in one run

(***************************************************************************)
(* Program constants.                                                      *)
(***************************************************************************)
FlushCount       == 10   \* for i in range(10)
SaveTxtPrecision == 18   \* np.savetxt's format, '%.18e'

T_FILEPATH == "calibration/camera_translation_matrix.npy"
R_FILEPATH == "calibration/camera_rotation_matrix.npy"
ConfigPaths == {T_FILEPATH, R_FILEPATH}

(***************************************************************************)
(* numpy arrays: a shape and the entries in row-major order.  Entries are  *)
(* integers standing for float64 values.                                   *)
(***************************************************************************)
Arr(shape, data) == [shape |-> shape, data |-> data]

\* A variant of MatK: the matrix laid out transposed, the principal point in
\* the bottom row.
MatKTransposed(intr) ==
    Arr(<<3, 3>>, <<intr.fx, 0, 0, 0, intr.fy, 0, intr.ppx, intr.ppy, 1>>)

\* K_matrix = np.array([[fx, 0, ppx], [0, fy, ppy], [0, 0, 1]])
MatK(intr) == Arr(<<3, 3>>, <<intr.fx, 0, intr.ppx, 0, intr.fy, intr.ppy, 0, 0, 1>>)

\* D_matrix = np.array(rs_intrinsics.coeffs)
VecD(intr) == Arr(<<Len(intr.coeffs)>>, intr.coeffs)

\* The intrinsics a started pipeline can report (two camera configurations).
IntrA == [fx |-> 615, fy |-> 616, ppx |-> 320, ppy |-> 240, coeffs |-> <<0, 0, 0, 0, 0>>]
IntrB == [fx |-> 920, fy |-> 921, ppx |-> 640, ppy |-> 360, coeffs |-> <<1, -2, 0, 0, 3>>]
Intrinsics == {IntrA, IntrB}

\* The poses solvePnP + Rodrigues + flatten can give: R is 3x3, T has 3 entries.
PoseA == [R |-> Arr(<<3, 3>>, <<1, 0, 0, 0, 1, 0, 0, 0, 1>>), T |-> Arr(<<3>>, <<0, 0, 1>>)]
PoseB == [R |-> Arr(<<3, 3>>, <<0, -1, 0, 1, 0, 0, 0, 0, 1>>), T |-> Arr(<<3>>, <<-25, 130, 1024>>)]
Poses == {PoseA, PoseB}

(***************************************************************************)
(* np.savetxt / np.loadtxt.  A file is a sequence of lines, a line a       *)
(* sequence of tokens; a numeric token is what '%.18e' prints: a sign, the *)
(* mantissa (its leading digits, and how many zeros fill it up to the      *)
(* precision) and the decimal exponent.                                    *)
(***************************************************************************)
RECURSIVE Digits(_)
Digits(n) == IF n < 10 THEN <<n>> ELSE Digits(n \div 10) \o <<n % 10>>

RECURSIVE Pow10(_)
Pow10(e) == IF e = 0 THEN 1 ELSE 10 * Pow10(e - 1)

Abs(v) == IF v < 0 THEN -v ELSE v

\* '%.<prec>e' % v : one digit before the point and prec digits after it.
FormatE(v, prec) ==
    LET d == Digits(Abs(v))
        n == IF Len(d) <= prec + 1 THEN Len(d) ELSE prec + 1
    IN  [neg   |-> v < 0,
         mant  |-> SubSeq(d, 1, n),
         zeros |-> prec + 1 - n,
         exp   |-> Len(d) - 1]

\* A variant of FormatNum: the numbers written with '%.1e'.
FormatNumShort(v) == FormatE(v, 1)

FormatNum(v) == FormatE(v, SaveTxtPrecision)

\* float(token)
RECURSIVE MantValue(_, _, _)
MantValue(mant, exp, k) ==
    IF k > Len(mant) \/ k > exp + 1 THEN 0
    ELSE mant[k] * Pow10(exp + 1 - k) + MantValue(mant, exp, k + 1)

Text == [text |-> TRUE]    \* a token that is not a number

IsNumeric(tok) == "mant" \in DOMAIN tok
ParseNum(tok) == (IF tok.neg THEN -1 ELSE 1) * MantValue(tok.mant, tok.exp, 1)

\* np.savetxt(f, X): a 1-D array is written one entry per line, a 2-D array
\* one row per line.
SaveTxt(X) ==
    [lines |->
        IF Len(X.shape) = 1
        THEN [r \in 1..X.shape[1] |-> <<FormatNum(X.data[r])>>]
        ELSE [r \in 1..X.shape[1] |->
                [c \in 1..X.shape[2] |-> FormatNum(X.data[(r - 1) * X.shape[2] + c])]]]

RECURSIVE Flatten(_)
Flatten(rows) == IF rows = <<>> THEN <<>> ELSE Head(rows) \o Flatten(Tail(rows))

\* The shape np.loadtxt gives r rows of c columns: axes of length 1 are squeezed.
Squeeze(r, c) ==
    IF r = 0 THEN <<0>>
    ELSE IF r = 1 /\ c = 1 THEN <<>>
    ELSE IF r = 1 THEN <<c>>
    ELSE IF c = 1 THEN <<r>>
    ELSE <<r, c>>

\* np.loadtxt(path): [err, val].  FileNotFoundError when the file is absent,
\* ValueError when a token is not a number or the rows differ in length; any
\* rectangular table of numbers loads, whatever its shape.
LoadTxt(content) ==
    IF content = Missing THEN [err |-> "CalibrationFileMissing", val |-> None]
    ELSE LET lines == content.lines
             rows  == Len(lines)
             cols  == IF rows = 0 THEN 0 ELSE Len(lines[1])
         IN  IF \E r \in 1..rows : \E c \in 1..Len(lines[r]) : ~IsNumeric(lines[r][c])
             THEN [err |-> "CalibrationFileInvalid", val |-> None]
             ELSE IF \E r \in 1..rows : Len(lines[r]) # cols
             THEN [err |-> "CalibrationFileInvalid", val |-> None]
             ELSE [err |-> "ok",
                   val |-> Arr(Squeeze(rows, cols),
                               Flatten([r \in 1..rows |->
                                          [c \in 1..cols |-> ParseNum(lines[r][c])]]))]

(***************************************************************************)
(* Files.  The two configured calibration files change; the other paths a  *)
(* caller can pass name files that never do.                               *)
(***************************************************************************)
NOTES_PATH  == "calibration/notes.txt"       \* a text file, not numbers
TABLE_PATH  == "calibration/table.txt"       \* a 2x2 table of numbers
ABSENT_PATH == "calibration/absent.txt"      \* no such file

ReadFile(path) ==
    IF path \in ConfigPaths THEN fs[path]
    ELSE IF path = NOTES_PATH THEN [lines |-> << <<Text, Text>> >>]
    ELSE IF path = TABLE_PATH
         THEN [lines |-> << <<FormatNum(1), FormatNum(2)>>, <<FormatNum(3), FormatNum(4)>> >>]
    ELSE Missing

LoadPaths == {NoArg, T_FILEPATH, R_FILEPATH, NOTES_PATH, TABLE_PATH, ABSENT_PATH}

\* cv2.imread(path) for the image files a caller can pass: None when the file
\* cannot be read, else what findChessboardCorners and solvePnP make of it.
SCENE_PNG   == "calibration/scene.png"         \* no checkerboard in view
BOARD_A_PNG == "calibration/checkerboard.png"  \* the board, seen in pose A
BOARD_B_PNG == "calibration/checkerboard2.png" \* the board, seen in pose B
ABSENT_PNG  == "calibration/absent.png"        \* no such file

ImagePaths == {NoArg, SCENE_PNG, BOARD_A_PNG, BOARD_B_PNG, ABSENT_PNG}

ImRead(path) ==
    IF path = SCENE_PNG THEN [board |-> FALSE, pose |-> None]
    ELSE IF path = BOARD_A_PNG THEN [board |-> TRUE, pose |-> PoseA]
    ELSE IF path = BOARD_B_PNG THEN [board |-> TRUE, pose |-> PoseB]
    ELSE None


(***************************************************************************)
(* Bookkeeping records.                                                    *)
(***************************************************************************)
Modes == {"live", "load", "image"}
ModeArgs == Modes \cup {"video"}            \* "video": a mode the code rejects
Streams == {"color", "depth"}

\* The call in progress: which operation, on which stream, how many frame sets
\* the camera had captured when get_live_frame was entered (atCall) and when the
\* operator confirmed (atConfirm), and how often the call took a snapshot.
NoCall == [op |-> "none", stream |-> "none", atCall |-> 0, atConfirm |-> 0, snaps |-> 0]

\* What a completed call gave: err is "ok" or the error it raised, pre is
\* whether the pipeline was running when start/stop was called, found is the
\* result of findChessboardCorners ("-" when it was not reached), seq is the
\* capture number of the frame a snapshot returned (0 when none).
Result(op, mode, err, pre, found, seq) ==
    [op |-> op, mode |-> mode, err |-> err, pre |-> pre, found |-> found, seq |-> seq]

Max(a, b) == IF a >= b THEN a ELSE b

Init ==
    /\ rs_intrinsics = None
    /\ K_matrix = None
    /\ D_matrix = None
    /\ R_matrix = None
    /\ T_vector = None
    /\ running = FALSE
    /\ produced = 0
    /\ queue = 0
    /\ fs = [p \in ConfigPaths |-> Missing]
    /\ pc = "idle"
    /\ call = NoCall
    /\ i = 0
    /\ frames = 0
    /\ outcome = Result("none", "-", "ok", FALSE, "-", 0)
    /\ delivered = FALSE
    /\ lastSeq = 0
    /\ nCalls = 0
    /\ drawing = FALSE
    /\ ix = -1 /\ iy = -1
    /\ cx = -1 /\ cy = -1
    /\ current_boxes = <<>>
    /\ window = "stream"
    /\ labels = <<>>

\* The client is between calls and may make another one.
ClientReady == pc = "idle" /\ nCalls < MaxCalls

(***************************************************************************)
(* The camera: while the pipeline runs it captures frame sets; the         *)
(* pipeline's queue keeps the latest one that was not yet waited for.      *)
(* Between calls and during input() any number of frame sets may replace   *)
(* one another in the queue.  The flush loop does nothing between two      *)
(* waits, so inside it the camera is taken not to outrun the loop: a new   *)
(* frame set arrives only once the queued one was taken.                   *)
(***************************************************************************)
DriverProduce ==
    /\ running
    /\ produced < MaxFrames
    /\ (pc = "flush" => queue = 0)
    /\ produced' = produced + 1
    /\ queue' = produced + 1
    /\ UNCHANGED <<session, running, fs, pc, call, locals, outcome, delivered,
                   lastSeq, nCalls>>
    /\ UNCHANGED annot

(***************************************************************************)
(* start_stream: pipeline.start(config), then the intrinsics of the depth  *)
(* profile.  The pipeline refuses a start while it is running.             *)
(***************************************************************************)
StartStream(intr) ==
    /\ ClientReady
    /\ nCalls' = nCalls + 1
    /\ IF running
       THEN /\ outcome' = Result("start_stream", "-", "DriverError", TRUE, "-", 0)
            /\ UNCHANGED <<session, driver, delivered>>
       ELSE /\ running' = TRUE
            /\ queue' = 0
            /\ rs_intrinsics' = intr
            /\ delivered' = FALSE
            /\ outcome' = Result("start_stream", "-", "ok", FALSE, "-", 0)
            /\ UNCHANGED <<K_matrix, D_matrix, R_matrix, T_vector, produced>>
    /\ UNCHANGED <<fs, pc, call, locals, lastSeq>>
    /\ UNCHANGED annot

(***************************************************************************)
(* stop_stream: pipeline.stop().  The pipeline refuses a stop while it is  *)
(* not running.                                                            *)
(***************************************************************************)
StopStream ==
    /\ ClientReady
    /\ nCalls' = nCalls + 1
    /\ IF running
       THEN /\ running' = FALSE
            /\ queue' = 0
            /\ outcome' = Result("stop_stream", "-", "ok", TRUE, "-", 0)
       ELSE /\ outcome' = Result("stop_stream", "-", "DriverError", FALSE, "-", 0)
            /\ UNCHANGED <<running, queue>>
    /\ UNCHANGED <<session, produced, fs, pc, call, locals, delivered, lastSeq>>
    /\ UNCHANGED annot


(***************************************************************************)
(* setup_matrices.                                                         *)
(***************************************************************************)
\* A variant of Precheck: the mode is checked before the intrinsics.
PrecheckModeFirst(mode) ==
    IF mode \notin Modes THEN "InvalidMode"
    ELSE IF rs_intrinsics = None THEN "NotStreaming"
    ELSE "ok"

\* The two checks that open setup_matrices, in the order the code makes them.
Precheck(mode) ==
    IF rs_intrinsics = None THEN "NotStreaming"
    ELSE IF mode \notin Modes THEN "InvalidMode"
    ELSE "ok"

\* corners_are_found of cv2.findChessboardCorners(gray, CHECKERBOARD_SIZE, None)
FindChessboardCorners(img) == img.board

\* A variant of Persist: the files opened with 'a', so that the new numbers
\* follow those of a prior calibration.
PersistAppends(files, R, T) ==
    LET old(p) == IF files[p] = Missing THEN <<>> ELSE files[p].lines
    IN  [files EXCEPT ![T_FILEPATH] = [lines |-> old(T_FILEPATH) \o SaveTxt(T).lines],
                      ![R_FILEPATH] = [lines |-> old(R_FILEPATH) \o SaveTxt(R).lines]]

\* The two np.savetxt calls that close a calibration.
Persist(files, R, T) ==
    [files EXCEPT ![T_FILEPATH] = SaveTxt(T), ![R_FILEPATH] = SaveTxt(R)]

\* A variant of Calibration: the two files are opened for writing before the
\* board is looked for, so a failed detection leaves them empty.
CalibrationOpensFirst(img, R0, T0, files) ==
    IF ~img.board
    THEN [err |-> "TargetNotFound", found |-> "no", R |-> R0, T |-> T0,
          fs |-> [p \in ConfigPaths |-> [lines |-> <<>>]]]
    ELSE [err |-> "ok", found |-> "yes", R |-> img.pose.R, T |-> img.pose.T,
          fs |-> [files EXCEPT ![T_FILEPATH] = SaveTxt(img.pose.T),
                               ![R_FILEPATH] = SaveTxt(img.pose.R)]]

\* The pipeline shared by image and live mode once an image is at hand:
\* detection, pose, then the two files.  R0, T0 and files are the values before.
Calibration(img, R0, T0, files) ==
    IF ~FindChessboardCorners(img)
    THEN [err |-> "TargetNotFound", found |-> "no", R |-> R0, T |-> T0, fs |-> files]
    ELSE [err |-> "ok", found |-> "yes", R |-> img.pose.R, T |-> img.pose.T,
          fs |-> Persist(files, img.pose.R, img.pose.T)]

\* case "load": T is read and stored first, then R.
LoadExtrinsics(fT, fR, R0, T0) ==
    IF fT = NoArg \/ fR = NoArg
    THEN [err |-> "MissingArgument", R |-> R0, T |-> T0]
    ELSE LET t == LoadTxt(ReadFile(fT))
         IN  IF t.err # "ok" THEN [err |-> t.err, R |-> R0, T |-> T0]
             ELSE LET r == LoadTxt(ReadFile(fR))
                  IN  IF r.err # "ok" THEN [err |-> r.err, R |-> R0, T |-> t.val]
                      ELSE [err |-> "ok", R |-> r.val, T |-> t.val]

SetupMatrices(mode, fT, fR, fImg) ==
    /\ ClientReady
    /\ nCalls' = nCalls + 1
    /\ LET chk == Precheck(mode)
       IN  IF chk # "ok"
           THEN /\ outcome' = Result("setup_matrices", mode, chk, FALSE, "-", 0)
                /\ UNCHANGED <<session, fs, pc, call>>
           ELSE /\ K_matrix' = MatK(rs_intrinsics)
                /\ D_matrix' = VecD(rs_intrinsics)
                /\ UNCHANGED rs_intrinsics
                /\ CASE mode = "load" ->
                          LET x == LoadExtrinsics(fT, fR, R_matrix, T_vector)
                          IN  /\ R_matrix' = x.R
                              /\ T_vector' = x.T
                              /\ outcome' = Result("setup_matrices", mode, x.err, FALSE, "-", 0)
                              /\ UNCHANGED <<fs, pc, call>>
                     [] mode = "image" ->
                          IF fImg = NoArg \/ ImRead(fImg) = None
                          THEN /\ outcome' = Result("setup_matrices", mode,
                                       IF fImg = NoArg THEN "MissingArgument"
                                       ELSE "ImageLoadError", FALSE, "-", 0)
                               /\ UNCHANGED <<R_matrix, T_vector, fs, pc, call>>
                          ELSE LET x == Calibration(ImRead(fImg), R_matrix, T_vector, fs)
                               IN  /\ R_matrix' = x.R
                                   /\ T_vector' = x.T
                                   /\ fs' = x.fs
                                   /\ outcome' = Result("setup_matrices", mode, x.err,
                                                        FALSE, x.found, 0)
                                   /\ UNCHANGED <<pc, call>>
                     [] mode = "live" ->
                          \* input(...): the call blocks until the operator confirms
                          /\ pc' = "confirm"
                          /\ call' = [NoCall EXCEPT !.op = "setup_matrices", !.stream = "color"]
                          /\ UNCHANGED <<R_matrix, T_vector, fs, outcome>>
    /\ UNCHANGED <<driver, locals, delivered, lastSeq>>
    /\ UNCHANGED annot

\* The operator presses Enter: input() returns and get_live_frame(color) is called.
Confirm ==
    /\ pc = "confirm"
    /\ pc' = "flush"
    /\ call' = [call EXCEPT !.atCall = produced, !.atConfirm = produced, !.snaps = @ + 1]
    /\ i' = 0
    /\ frames' = 0
    /\ UNCHANGED <<session, driver, fs, outcome, delivered, lastSeq, nCalls>>
    /\ UNCHANGED annot

(***************************************************************************)
(* get_live_frame.                                                         *)
(***************************************************************************)
StreamArgs == Streams \cup {"infrared"}     \* "infrared": neither branch is taken

\* The client calls get_live_frame(stream).
GetLiveFrame(stream) ==
    /\ ClientReady
    /\ nCalls' = nCalls + 1
    /\ pc' = "flush"
    /\ call' = [NoCall EXCEPT !.op = "get_live_frame", !.stream = stream,
                              !.atCall = produced, !.snaps = 1]
    /\ i' = 0
    /\ frames' = 0
    /\ UNCHANGED <<session, driver, fs, outcome, delivered, lastSeq>>
    /\ UNCHANGED annot

\* A variant of FlushDone: the loop body runs once.
FlushDoneAtOnce(n) == n >= 1

\* for i in range(10): the loop has run n times.
FlushDone(n) == n >= FlushCount

\* A variant of WaitForFrames: the frame set of an earlier call is kept and
\* used again instead of the one just waited for.
WaitForFramesCached ==
    /\ pc = "flush"
    /\ ~FlushDone(i)
    /\ running
    /\ queue # 0
    /\ frames' = IF lastSeq > 0 THEN lastSeq ELSE queue
    /\ queue' = 0
    /\ i' = i + 1
    /\ UNCHANGED <<session, running, produced, fs, pc, call, outcome, delivered,
                   lastSeq, nCalls>>
    /\ UNCHANGED annot

\* frames = self.pipeline.wait_for_frames(), a frame set being queued.
WaitForFrames ==
    /\ pc = "flush"
    /\ ~FlushDone(i)
    /\ running
    /\ queue # 0
    /\ frames' = queue
    /\ queue' = 0
    /\ i' = i + 1
    /\ UNCHANGED <<session, running, produced, fs, pc, call, outcome, delivered,
                   lastSeq, nCalls>>
    /\ UNCHANGED annot

\* The exception leaves get_live_frame, and setup_matrices when that called it.
Raise(err) ==
    /\ pc' = "idle"
    /\ call' = NoCall
    /\ i' = 0
    /\ frames' = 0
    /\ outcome' = Result(call.op, IF call.op = "setup_matrices" THEN "live" ELSE "-",
                         err, FALSE, "-", 0)
    /\ UNCHANGED <<session, driver, fs, delivered, lastSeq, nCalls>>
    /\ UNCHANGED annot

\* wait_for_frames() on a pipeline that is not running raises RuntimeError.
WaitNotStarted ==
    /\ pc = "flush"
    /\ ~FlushDone(i)
    /\ ~running
    /\ Raise("DriverError")

\* wait_for_frames() raises RuntimeError when no frame set arrives in time.
WaitTimeout ==
    /\ pc = "flush"
    /\ ~FlushDone(i)
    /\ running
    /\ queue = 0
    /\ Raise("FrameTimeout")

\* What the last frame set holds: a color frame (None when it has none), seen
\* as cv2 will see it, and whether it has a depth frame.
FrameKinds ==
    {[color |-> c, depth |-> d] :
        c \in {None, ImRead(SCENE_PNG), ImRead(BOARD_A_PNG), ImRead(BOARD_B_PNG)},
        d \in BOOLEAN}

\* The value get_live_frame returns for `stream` from a frame set of that kind.
Snapshot(stream, kind) ==
    IF stream = "color" THEN kind.color
    ELSE IF stream = "depth" THEN (IF kind.depth THEN [depth |-> TRUE] ELSE None)
    ELSE None

\* The loop is over: get_live_frame returns, and in live mode setup_matrices
\* goes on with the image.
GetLiveFrameReturn(kind) ==
    /\ pc = "flush"
    /\ FlushDone(i)
    /\ LET img == Snapshot(call.stream, kind)
           seq == IF img = None THEN 0 ELSE frames
       IN  /\ delivered' = (delivered \/ img # None)
           /\ lastSeq' = Max(lastSeq, seq)
           /\ IF call.op = "get_live_frame"
              THEN /\ outcome' = Result("get_live_frame", "-", "ok", FALSE, "-", seq)
                   /\ UNCHANGED <<session, fs>>
              ELSE IF img = None
              THEN /\ outcome' = Result("setup_matrices", "live", "NoFrameAvailable",
                                        FALSE, "-", 0)
                   /\ UNCHANGED <<session, fs>>
              ELSE LET x == Calibration(img, R_matrix, T_vector, fs)
                   IN  /\ R_matrix' = x.R
                       /\ T_vector' = x.T
                       /\ fs' = x.fs
                       /\ outcome' = Result("setup_matrices", "live", x.err, FALSE,
                                            x.found, seq)
                       /\ UNCHANGED <<rs_intrinsics, K_matrix, D_matrix>>
    /\ pc' = "idle"
    /\ call' = NoCall
    /\ i' = 0
    /\ frames' = 0
    /\ UNCHANGED <<driver, nCalls>>
    /\ UNCHANGED annot

Next ==
    \/ DriverProduce
    \/ \E intr \in Intrinsics : StartStream(intr)
    \/ StopStream
    \/ \E fT, fR \in LoadPaths : SetupMatrices("load", fT, fR, NoArg)
    \/ \E fImg \in ImagePaths : SetupMatrices("image", NoArg, NoArg, fImg)
    \/ \E mode \in ModeArgs \ {"load", "image"} : SetupMatrices(mode, NoArg, NoArg, NoArg)
    \/ Confirm
    \/ \E stream \in StreamArgs : GetLiveFrame(stream)
    \/ WaitForFrames
    \/ WaitNotStarted
    \/ WaitTimeout
    \/ \E kind \in FrameKinds : GetLiveFrameReturn(kind)

Spec == Init /\ [][Next]_vars


(***************************************************************************)
(* Properties.                                                             *)
(***************************************************************************)
\* The step on which a setup_matrices call returns or raises.
SetupCompletes ==
    /\ pc' = "idle"
    /\ outcome'.op = "setup_matrices"
    /\ \/ pc = "idle" /\ nCalls' = nCalls + 1
       \/ pc = "flush" /\ call.op = "setup_matrices"

\* The step on which get_live_frame returns a value (to the client or to
\* setup_matrices).
SnapshotReturns ==
    /\ pc = "flush"
    /\ pc' = "idle"
    /\ outcome'.err \notin {"FrameTimeout", "DriverError"}

\* C1: a setup_matrices call in image or live mode whose checkerboard
\* detection fails raises TargetNotFound and leaves both persisted
\* calibration files as they were, whatever calibrations came before.
C1_TargetNotFoundWritesNothing ==
    [][(SetupCompletes /\ outcome'.found = "no")
        => /\ outcome'.err = "TargetNotFound"
           /\ outcome'.mode \in {"image", "live"}
           /\ fs' = fs]_vars

\* C1 witness: a live calibration failed to find the board after an earlier
\* calibration had written the files.
C1_Witness ==
    /\ outcome.op = "setup_matrices"
    /\ outcome.mode = "live"
    /\ outcome.found = "no"
    /\ outcome.err = "TargetNotFound"
    /\ fs[T_FILEPATH] # Missing
    /\ fs[R_FILEPATH] # Missing

\* C2: in live mode the snapshot is taken only after the operator confirmed,
\* once per call, and the frame it uses was captured after the confirmation;
\* when the frame set has no color frame the call raises NoFrameAvailable and
\* R, T and the persisted files stay as they were.
C2_LiveSnapshotAfterConfirm ==
    [][/\ (pc' = "flush" /\ call'.op = "setup_matrices")
            => (pc \in {"confirm", "flush"} /\ call'.snaps = 1)
       /\ (SnapshotReturns /\ call.op = "setup_matrices")
            => /\ call.snaps = 1
               /\ outcome'.seq > 0 => outcome'.seq > call.atConfirm
               /\ outcome'.seq = 0
                    => /\ outcome'.err = "NoFrameAvailable"
                       /\ UNCHANGED <<R_matrix, T_vector, fs>>]_vars

\* C2 witness: a live calibration has used a frame, and succeeded.
C2_Witness ==
    /\ outcome.op = "setup_matrices"
    /\ outcome.mode = "live"
    /\ outcome.err = "ok"
    /\ outcome.seq > 0

\* C3: a snapshot never returns a frame older than one an earlier snapshot
\* returned, nor one older than the latest frame set captured before the
\* snapshot was asked for.
C3_FreshnessMonotonic ==
    [][(SnapshotReturns /\ outcome'.seq > 0)
        => /\ outcome'.seq >= lastSeq
           /\ outcome'.seq >= call.atCall]_vars

\* C3 witness: a second snapshot is about to return a frame newer than the one
\* returned before, frame sets having been captured in between.
C3_Witness ==
    /\ pc = "flush"
    /\ call.op = "get_live_frame"
    /\ FlushDone(i)
    /\ lastSeq > 0
    /\ call.atCall > lastSeq
    /\ frames > lastSeq


\* C4: the warm-up discard happens once per stream start: once a frame has
\* been delivered since start_stream, no later call pulls frame sets only to
\* drop them.  (i >= 2: the frame set of the first wait has been replaced.)
C4_WarmupOncePerStart ==
    ~(delivered /\ pc = "flush" /\ i >= 2)

\* C5: start_stream on a running session and stop_stream on a stopped one are
\* no-ops that raise nothing.
C5_StartIdempotent ==
    (outcome.op = "start_stream" /\ outcome.pre) => outcome.err = "ok"

C5_StopIdempotent ==
    (outcome.op = "stop_stream" /\ ~outcome.pre) => outcome.err = "ok"

\* C6: a driver timeout while waiting for a frame set is absorbed by frame
\* acquisition (logged, retried); it never leaves it as an exception.
C6_TimeoutAbsorbed ==
    outcome.err # "FrameTimeout"

\* C7: load mode never completes successfully with an R_matrix that is not
\* 3x3 or a T_vector that is not of length 3.
C7_LoadValidatesShape ==
    (outcome.op = "setup_matrices" /\ outcome.mode = "load" /\ outcome.err = "ok")
        => (R_matrix.shape = <<3, 3>> /\ T_vector.shape = <<3>>)

\* The two configured files hold what a calibration that found `pose` wrote.
HoldsPose(files, pose) ==
    /\ files[T_FILEPATH] = SaveTxt(pose.T)
    /\ files[R_FILEPATH] = SaveTxt(pose.R)

\* C8: when the two configured files hold what a successful calibration
\* persisted, loading them in load mode succeeds and gives the R and T that
\* calibration had stored (same shape, same entries).
C8_SaveLoadRoundTrip ==
    [][\A pose \in Poses :
          (HoldsPose(fs, pose) /\ SetupMatrices("load", T_FILEPATH, R_FILEPATH, NoArg))
            => /\ outcome'.err = "ok"
               /\ R_matrix' = pose.R
               /\ T_vector' = pose.T]_vars

\* C8 witness: the files written for pose B have been loaded back.
C8_Witness ==
    /\ outcome.op = "setup_matrices"
    /\ outcome.mode = "load"
    /\ outcome.err = "ok"
    /\ HoldsPose(fs, PoseB)
    /\ R_matrix = PoseB.R
    /\ T_vector = PoseB.T

\* C9: as long as start_stream has never succeeded, every setup_matrices
\* call, whatever its mode, raises NotStreaming, and K, D, R, T and the
\* persisted files are what they were at construction.
C9_NotStreamingBeforeStart ==
    rs_intrinsics = None
        => /\ outcome.op = "setup_matrices" => outcome.err = "NotStreaming"
           /\ K_matrix = None /\ D_matrix = None
           /\ R_matrix = None /\ T_vector = None
           /\ \A p \in ConfigPaths : fs[p] = Missing

\* C9 witness: setup_matrices was called with an invalid mode before any
\* start_stream and raised NotStreaming.
C9_Witness ==
    /\ rs_intrinsics = None
    /\ outcome.op = "setup_matrices"
    /\ outcome.mode = "video"
    /\ outcome.err = "NotStreaming"

\* C10: a step changes a persisted file only when it completes a successful
\* image-mode or live-mode calibration, and then the T file holds exactly the
\* 3 numbers of the session's T and the R file the 9 numbers of its R.
C10_FilesFollowCalibration ==
    [][IF SetupCompletes /\ outcome'.err = "ok" /\ outcome'.mode \in {"image", "live"}
       THEN /\ LoadTxt(fs'[T_FILEPATH]) = [err |-> "ok", val |-> T_vector']
            /\ LoadTxt(fs'[R_FILEPATH]) = [err |-> "ok", val |-> R_matrix']
            /\ Len(Flatten(fs'[T_FILEPATH].lines)) = 3
            /\ Len(Flatten(fs'[R_FILEPATH].lines)) = 9
       ELSE fs' = fs]_vars

\* C10 witness: a live calibration succeeded and the files hold its pose B.
C10_Witness ==
    /\ outcome.op = "setup_matrices"
    /\ outcome.mode = "live"
    /\ outcome.err = "ok"
    /\ R_matrix = PoseB.R
    /\ HoldsPose(fs, PoseB)


\* The step on which a setup_matrices call is made and passes its two
\* opening checks.
SetupPasses ==
    /\ pc = "idle"
    /\ nCalls' = nCalls + 1
    /\ \/ /\ pc' = "idle"
          /\ outcome'.op = "setup_matrices"
          /\ outcome'.err \notin {"NotStreaming", "InvalidMode"}
       \/ pc' = "confirm"

\* K and D are the matrix and vector form of the reported intrinsics intr.
IsFormOf(K, D, intr) ==
    /\ K = [shape |-> <<3, 3>>,
            data  |-> <<intr.fx, 0, intr.ppx, 0, intr.fy, intr.ppy, 0, 0, 1>>]
    /\ D = [shape |-> <<Len(intr.coeffs)>>, data |-> intr.coeffs]

C12_ExtrinsicsUpdatedAsPair ==
    [][(SetupCompletes /\ outcome'.err # "ok")
        => (R_matrix' = R_matrix /\ T_vector' = T_vector)]_vars


(***************************************************************************)
(* The annotation loop of code/dataset_creation/main.py.                   *)
(*                                                                         *)
(* The image is ImgW x ImgH pixels (640 x 480 in the program, scaled down  *)
(* here); the window delivers mouse events at pixels of the image, in any  *)
(* order: nothing in OpenCV promises a button-up after a button-down.      *)
(* Arithmetic of convert_to_yolo is exact: a value is a fraction           *)
(* <<numerator, denominator>> with a positive denominator.                 *)
(***************************************************************************)
ImgW == 3
ImgH == 2
MaxBoxes == 2

Xs == 0 .. (ImgW - 1)
Ys == 0 .. (ImgH - 1)

MouseEvents == {"EVENT_LBUTTONDOWN", "EVENT_MOUSEMOVE", "EVENT_LBUTTONUP"}

Min(a, b) == IF a <= b THEN a ELSE b

\* sorted([a, b])
Sorted2(a, b) == <<Min(a, b), Max(a, b)>>

\* mouse_callback(event, x, y, flags, param)
mouse_callback(event, x, y) ==
    /\ window = "annotate"
    /\ event \in MouseEvents
    /\ CASE event = "EVENT_LBUTTONDOWN" ->
              /\ drawing' = TRUE
              /\ ix' = x /\ iy' = y
              /\ cx' = x /\ cy' = y
              /\ UNCHANGED current_boxes
         [] event = "EVENT_MOUSEMOVE" ->
              /\ IF drawing
                 THEN cx' = x /\ cy' = y
                 ELSE UNCHANGED <<cx, cy>>
              /\ UNCHANGED <<drawing, ix, iy, current_boxes>>
         [] event = "EVENT_LBUTTONUP" ->
              LET xs == Sorted2(ix, x)
                  ys == Sorted2(iy, y)
                  x_min == xs[1]
                  x_max == xs[2]
                  y_min == ys[1]
                  y_max == ys[2]
              IN  /\ drawing' = FALSE
                  /\ IF x_max > x_min /\ y_max > y_min
                     THEN /\ Len(current_boxes) < MaxBoxes
                          /\ current_boxes' =
                                Append(current_boxes, <<x_min, y_min, x_max, y_max>>)
                     ELSE UNCHANGED current_boxes
                  /\ UNCHANGED <<ix, iy, cx, cy>>
    /\ UNCHANGED <<window, labels>>
    /\ UNCHANGED camera

\* convert_to_yolo(box, img_width, img_height): (x_c, y_c, w, h), each a fraction
convert_to_yolo(box, img_width, img_height) ==
    LET xmin == box[1]
        ymin == box[2]
        xmax == box[3]
        ymax == box[4]
        bw == xmax - xmin
        bh == ymax - ymin
        bx2 == 2 * xmin + bw      \* twice bx = xmin + bw / 2.0
        by2 == 2 * ymin + bh      \* twice by = ymin + bh / 2.0
    IN  << <<bx2, 2 * img_width>>, <<by2, 2 * img_height>>,
           <<bw, img_width>>, <<bh, img_height>> >>

\* main, key [C]: capture the current frame and open the Annotate window
KeyCapture ==
    /\ window = "stream"
    /\ current_boxes' = <<>>
    /\ window' = "annotate"
    /\ UNCHANGED <<drawing, ix, iy, cx, cy, labels>>
    /\ UNCHANGED camera

\* main, key [S]: write the label file when there are boxes, close the window
KeySave ==
    /\ window = "annotate"
    /\ labels' = IF current_boxes # <<>>
                 THEN [k \in 1 .. Len(current_boxes) |->
                          convert_to_yolo(current_boxes[k], ImgW, ImgH)]
                 ELSE labels
    /\ window' = "stream"
    /\ UNCHANGED <<drawing, ix, iy, cx, cy, current_boxes>>
    /\ UNCHANGED camera

\* main, key [R]: discard, close the window
KeyRecapture ==
    /\ window = "annotate"
    /\ window' = "stream"
    /\ UNCHANGED <<drawing, ix, iy, cx, cy, current_boxes, labels>>
    /\ UNCHANGED camera

\* main, key [Z]: undo the last box
KeyUndo ==
    /\ window = "annotate"
    /\ current_boxes # <<>>
    /\ current_boxes' = SubSeq(current_boxes, 1, Len(current_boxes) - 1)
    /\ UNCHANGED <<drawing, ix, iy, cx, cy, window, labels>>
    /\ UNCHANGED camera

AnnotNext ==
    \/ KeyCapture
    \/ \E event \in MouseEvents, x \in Xs, y \in Ys : mouse_callback(event, x, y)
    \/ KeySave
    \/ KeyRecapture
    \/ KeyUndo

AnnotSpec == Init /\ [][AnnotNext]_vars

\* a fraction lies in [0, 1]
InUnit(q) == 0 <= q[1] /\ q[1] <= q[2]

\* top-left to bottom-right order and positive area
Ordered(box) == box[1] < box[3] /\ box[2] < box[4]

\* both corners are pixels of the image
InsideImage(box) ==
    /\ box[1] \in Xs /\ box[3] \in Xs
    /\ box[2] \in Ys /\ box[4] \in Ys

\* C13: whatever mouse events reach mouse_callback, every box in
\* current_boxes is ordered top-left to bottom-right with positive area, has
\* both corners inside the image, and convert_to_yolo of it gives a centre,
\* width and height in [0, 1].
C13_BoxesWellFormed ==
    \A k \in 1 .. Len(current_boxes) :
        LET box  == current_boxes[k]
            yolo == convert_to_yolo(box, ImgW, ImgH)
        IN  /\ Ordered(box)
            /\ InsideImage(box)
            /\ \A j \in 1 .. 4 : InUnit(yolo[j])

\* The part of C13 the code keeps: order and positive area of every box.
BoxesOrdered ==
    \A k \in 1 .. Len(current_boxes) : Ordered(current_boxes[k])


====
